---- MODULE Spec2Model ----
(***************************************************************************)
(* A model of the e-mail relay server: index.js (POST /mail handling and   *)
(* validation) and mailer.js (provider selection, the outbound request's   *)
(* response / error / timeout handlers, and the provider cursor).          *)
(***************************************************************************)
EXTENDS Integers, Sequences, FiniteSets, TLC

\* Bounds: the number of deliver calls that reach a provider in one run, and
\* the same number in the runs that post every kind of submission or inject
\* exceptions.
MaxReqs == 3
MaxPosts == 1

\* The number of deliver calls in the runs with every status code, with
\* repeated submissions and with fairness.
MaxFew == 2

\* http-codes used by the program.
OK == 200
ACCEPTED == 202
BAD_REQUEST == 400
INTERNAL_SERVER_ERROR == 500
SERVICE_UNAVAILABLE == 503

GenericMsg == "There is an problem at our end. We will fix it ASAP."
NoProviderMsg == "No email service provider"

(***************************************************************************)
(* Raw form fields.  A field of the parsed body is undefined, a string or  *)
(* (a repeated field) an array.  A string is a sequence of words; the word *)
(* " " is white space.                                                     *)
(***************************************************************************)
Undef == [t |-> "undef", s |-> <<>>]
Str(ws) == [t |-> "str", s |-> ws]
Arr(ws) == [t |-> "arr", s |-> ws]

\* JavaScript truthiness of a field value: undefined and "" are falsy.
Truthy(v) == v.t = "arr" \/ (v.t = "str" /\ v.s # <<>>)

RECURSIVE TrimLeft(_)
TrimLeft(ws) == IF ws # <<>> /\ Head(ws) = " " THEN TrimLeft(Tail(ws)) ELSE ws

RECURSIVE TrimRight(_)
TrimRight(ws) ==
    IF ws # <<>> /\ ws[Len(ws)] = " " THEN TrimRight(SubSeq(ws, 1, Len(ws) - 1)) ELSE ws

\* String.prototype.trim
StringTrim(ws) == TrimRight(TrimLeft(ws))

\* trim( s ): s ? s.trim() : s.  An array is truthy and has no trim method,
\* so the call throws a TypeError.
trimThrows(v) == v.t = "arr"

trim(v) == IF v.t = "str" /\ v.s # <<>> THEN Str(StringTrim(v.s)) ELSE v

\* The address parser's view of the words of a string: the library is not
\* part of the repository; it is given here by its results on the words used.
Null == "null"

AddrBook ==
    [w \in {"a@x.com", "b@x.com", "Bob <b@x.com>"} |->
        CASE w = "a@x.com" -> [name |-> Null, address |-> "a@x.com"]
          [] w = "b@x.com" -> [name |-> Null, address |-> "b@x.com"]
          [] w = "Bob <b@x.com>" -> [name |-> "Bob", address |-> "b@x.com"]]

\* emailAddrParser.parseAddressList: null for a string that is no address list.
parseAddressList(ws) ==
    IF \A k \in 1..Len(ws) : ws[k] \in DOMAIN AddrBook
    THEN [isNull |-> FALSE, arr |-> [k \in 1..Len(ws) |-> AddrBook[ws[k]]]]
    ELSE [isNull |-> TRUE, arr |-> <<>>]

\* parseEmailAddr( addr, required, single ).  def: the addr attribute of the
\* result is defined; logged: logger.error was called.  The addr attribute
\* is one { name, addr } when single, a list of them otherwise.
parseEmailAddr(v, required, single) ==
    IF ~Truthy(v) THEN [ok |-> ~required, def |-> FALSE, addr |-> <<>>, logged |-> FALSE]
    ELSE IF v.t # "str" THEN [ok |-> FALSE, def |-> FALSE, addr |-> <<>>, logged |-> FALSE]
    ELSE LET p == parseAddressList(v.s) IN
         IF p.isNull THEN [ok |-> FALSE, def |-> FALSE, addr |-> <<>>, logged |-> TRUE]
         ELSE IF single
              THEN IF Len(p.arr) # 1
                   THEN [ok |-> FALSE, def |-> FALSE, addr |-> <<>>, logged |-> TRUE]
                   ELSE [ok |-> TRUE, def |-> TRUE,
                         addr |-> [name |-> p.arr[1].name, addr |-> p.arr[1].address],
                         logged |-> FALSE]
              ELSE [ok |-> TRUE, def |-> TRUE,
                    addr |-> [k \in 1..Len(p.arr) |->
                                 [name |-> p.arr[k].name, addr |-> p.arr[k].address]],
                    logged |-> FALSE]

Fields == <<"from", "to", "cc", "bcc", "subject", "text">>

MissingMsg(f) == "Missing or empty \"" \o f \o "\" field"
InvalidMsg(f) == "Invalid \"" \o f \o "\" field"

NoMail == [from |-> [name |-> Null, addr |-> ""], to |-> <<>>, cc |-> <<>>, ccDef |-> FALSE,
           bcc |-> <<>>, bccDef |-> FALSE, subject |-> <<>>, text |-> <<>>]

\* A validation that checks each address field's format as soon as the
\* field is known to be present.
assembleMailFormatFirst(body, logThrows) ==
    IF \E k \in 1..Len(Fields) : trimThrows(body[Fields[k]])
    THEN [threw |-> TRUE, error |-> "", mail |-> NoMail]
    ELSE
    LET from == trim(body.from)
        to == trim(body.to)
        cc == trim(body.cc)
        bcc == trim(body.bcc)
        subject == trim(body.subject)
        text == trim(body.text)
        pf == parseEmailAddr(from, TRUE, TRUE)
        pt == parseEmailAddr(to, TRUE, FALSE)
        pc == parseEmailAddr(cc, FALSE, FALSE)
        pb == parseEmailAddr(bcc, FALSE, FALSE)
        Err(m) == [threw |-> FALSE, error |-> m, mail |-> NoMail]
    IN  IF ~Truthy(from) THEN Err(MissingMsg("from"))
        ELSE IF ~pf.ok THEN Err(InvalidMsg("from"))
        ELSE IF ~Truthy(to) THEN Err(MissingMsg("to"))
        ELSE IF ~pt.ok THEN Err(InvalidMsg("to"))
        ELSE IF ~Truthy(subject) THEN Err(MissingMsg("subject"))
        ELSE IF ~Truthy(text) THEN Err(MissingMsg("text"))
        ELSE IF ~pc.ok THEN Err(InvalidMsg("cc"))
        ELSE IF ~pb.ok THEN Err(InvalidMsg("bcc"))
        ELSE [threw |-> FALSE, error |-> "",
              mail |-> [from |-> pf.addr, to |-> pt.addr,
                        cc |-> pc.addr, ccDef |-> pc.def,
                        bcc |-> pb.addr, bccDef |-> pb.def,
                        subject |-> subject.s, text |-> text.s]]

\* assembleMail( req ) on a parsed body; logThrows: the logger throws when
\* it is called.  threw: an exception left the function; error: "" when
\* the mail was assembled.
assembleMail(body, logThrows) ==
    IF \E k \in 1..Len(Fields) : trimThrows(body[Fields[k]])
    THEN [threw |-> TRUE, error |-> "", mail |-> NoMail]
    ELSE
    LET from == trim(body.from)
        to == trim(body.to)
        cc == trim(body.cc)
        bcc == trim(body.bcc)
        subject == trim(body.subject)
        text == trim(body.text)
        pf == parseEmailAddr(from, TRUE, TRUE)
        pt == parseEmailAddr(to, TRUE, FALSE)
        pc == parseEmailAddr(cc, FALSE, FALSE)
        pb == parseEmailAddr(bcc, FALSE, FALSE)
        Err(m) == [threw |-> FALSE, error |-> m, mail |-> NoMail]
        Bad(p, f) == IF p.logged /\ logThrows
                     THEN [threw |-> TRUE, error |-> "", mail |-> NoMail]
                     ELSE Err(InvalidMsg(f))
    IN  IF ~Truthy(from) THEN Err(MissingMsg("from"))
        ELSE IF ~Truthy(to) THEN Err(MissingMsg("to"))
        ELSE IF ~Truthy(subject) THEN Err(MissingMsg("subject"))
        ELSE IF ~Truthy(text) THEN Err(MissingMsg("text"))
        ELSE IF ~pf.ok THEN Bad(pf, "from")
        ELSE IF ~pt.ok THEN Bad(pt, "to")
        ELSE IF ~pc.ok THEN Bad(pc, "cc")
        ELSE IF ~pb.ok THEN Bad(pb, "bcc")
        ELSE [threw |-> FALSE, error |-> "",
              mail |-> [from |-> pf.addr, to |-> pt.addr,
                        cc |-> pc.addr, ccDef |-> pc.def,
                        bcc |-> pb.addr, bccDef |-> pb.def,
                        subject |-> subject.s, text |-> text.s]]

(***************************************************************************)
(* mailer.js                                                               *)
(***************************************************************************)
NoErr == [code |-> 0, message |-> ""]

makeError(code, msg) == [code |-> code, message |-> msg]

Undefined == "undefined"

\* getProvider(): providers[ iProvider ], undefined outside the array.
getProvider(ps, i) == IF i + 1 \in DOMAIN ps THEN ps[i + 1] ELSE Undefined

\* A cursor that is incremented without the modulo.
useNextProviderNoWrap(i, n) == i + 1

\* A cursor that stays where it is.
useNextProviderStuck(i, n) == i

\* useNextProvider(): iProvider = ( iProvider + 1 ) % providers.length
useNextProvider(i, n) == (i + 1) % n

\* The providers' answers used here, with their status messages.
StatusMessage(code) ==
    CASE code = OK -> "OK"
      [] code = ACCEPTED -> "Accepted"
      [] code = BAD_REQUEST -> "Bad Request"
      [] code = 201 -> "Created"
      [] code = 204 -> "No Content"
      [] code = 301 -> "Moved Permanently"
      [] code = 404 -> "Not Found"
      [] code = INTERNAL_SERVER_ERROR -> "Internal Server Error"
      [] OTHER -> "Service Unavailable"

Statuses == {OK, ACCEPTED, BAD_REQUEST, SERVICE_UNAVAILABLE}

\* More of the answers a provider can give: other 2xx, 3xx, 4xx and 5xx.
MoreStatuses == Statuses \cup {201, 204, 301, 404, INTERNAL_SERVER_ERROR}

\* A transport error's message.
TransportMsg == "socket hang up"

(***************************************************************************)
(* index.js: the response side of handleMail.  A response is the sequence  *)
(* of writes made with res.status / res.end; logThrows: the logger throws  *)
(* when it is called.                                                      *)
(***************************************************************************)
\* internalError( res, err ): status 500, the generic message, then the log.
internalError(resp, logThrows) ==
    [resp |-> Append(resp, [code |-> INTERNAL_SERVER_ERROR, body |-> GenericMsg]),
     threw |-> logThrows]

\* A callback that passes the provider's detail on to the caller.
indexCallbackLeaky(resp, err, logThrows) ==
    IF err # NoErr
    THEN [resp |-> Append(resp, [code |-> IF err.code = BAD_REQUEST THEN BAD_REQUEST
                                          ELSE INTERNAL_SERVER_ERROR,
                                 body |-> err.message]),
          threw |-> logThrows]
    ELSE [resp |-> Append(resp, [code |-> OK, body |-> ""]), threw |-> logThrows]

\* The callback handleMail passes to mailer.send (its try and its catch).
indexCallback(resp, err, logThrows) ==
    LET try ==
            IF err # NoErr
            THEN IF err.code # BAD_REQUEST
                 THEN internalError(resp, logThrows)
                 ELSE IF logThrows
                      THEN [resp |-> resp, threw |-> TRUE]
                      ELSE [resp |-> Append(resp, [code |-> BAD_REQUEST, body |-> err.message]),
                            threw |-> FALSE]
            ELSE IF logThrows
                 THEN [resp |-> resp, threw |-> TRUE]
                 ELSE [resp |-> Append(resp, [code |-> OK, body |-> ""]), threw |-> FALSE]
    IN  IF try.threw THEN internalError(try.resp, logThrows) ELSE try

(***************************************************************************)
(* mailer.js: the callback exports.send passes to provider.send, and the   *)
(* three listeners of Provider.prototype.send.  c is the part of the state *)
(* a handler works on: the response written so far, the cursor, the number *)
(* of calls of the callback, the cursor the caller's callback saw, and the *)
(* error the caller's callback was given (internalError writes its message *)
(* to the log).                                                            *)
(***************************************************************************)
\* A callback that moves the cursor on every outcome, success included.
sendCallbackAlways(c, err, n, logThrows) ==
    LET r == indexCallback(c.resp, err, logThrows) IN
    [resp |-> r.resp,
     threw |-> r.threw,
     cursor |-> IF r.threw THEN c.cursor ELSE (c.cursor + 1) % n,
     ncb |-> c.ncb + 1,
     cbCursor |-> c.cursor,
     err |-> err]

\* A callback that keeps the cursor when the provider answered 400.
sendCallbackKeepOn400(c, err, n, logThrows) ==
    LET r == indexCallback(c.resp, err, logThrows) IN
    [resp |-> r.resp,
     threw |-> r.threw,
     cursor |-> IF err = NoErr \/ err.code = BAD_REQUEST \/ r.threw THEN c.cursor
                ELSE (c.cursor + 1) % n,
     ncb |-> c.ncb + 1,
     cbCursor |-> c.cursor,
     err |-> err]

\* ( err ) => { if( !err ) { callback(); return; } callback( err ); useNextProvider(); }
sendCallback(c, err, n, logThrows) ==
    LET r == indexCallback(c.resp, err, logThrows) IN
    [resp |-> r.resp,
     threw |-> r.threw,
     cursor |-> IF err = NoErr \/ r.threw THEN c.cursor ELSE useNextProvider(c.cursor, n),
     ncb |-> c.ncb + 1,
     cbCursor |-> c.cursor,
     err |-> err]

\* A classification that takes every 2xx answer as a success.
classify2xx(name, status) ==
    IF status \in 200..299 THEN NoErr
    ELSE IF status = BAD_REQUEST THEN makeError(BAD_REQUEST, StatusMessage(status))
    ELSE makeError(INTERNAL_SERVER_ERROR, name \o " error - " \o StatusMessage(status))

\* The classification of a provider's answer in the "response" listener.
classify(name, status) ==
    IF status = OK \/ status = ACCEPTED THEN NoErr
    ELSE IF status = BAD_REQUEST THEN makeError(BAD_REQUEST, StatusMessage(status))
    ELSE makeError(INTERNAL_SERVER_ERROR, name \o " error - " \o StatusMessage(status))

\* req.once( "response", ... ): the try, and the catch that calls the
\* callback again when the try threw.
onResponse(c, name, status, n, logThrows) ==
    LET r1 == sendCallback(c, classify(name, status), n, logThrows) IN
    IF r1.threw
    THEN sendCallback(r1, makeError(INTERNAL_SERVER_ERROR, "exception"), n, logThrows)
    ELSE r1

\* An error listener that reports the call as sent.
onErrorSwallowed(c, msg, n, logThrows) == sendCallback(c, NoErr, n, logThrows)

\* req.once( "error", ... )
onError(c, msg, n, logThrows) ==
    sendCallback(c, makeError(INTERNAL_SERVER_ERROR, msg), n, logThrows)

\* A timeout listener that does nothing.
onTimeoutSilent(c, n, logThrows) == c

\* req.once( "timeout", ... )
onTimeout(c, n, logThrows) ==
    sendCallback(c, makeError(INTERNAL_SERVER_ERROR, "timeout"), n, logThrows)

\* A send that also tries the following provider.
exportsSendFanout(ps, i) ==
    IF getProvider(ps, i) = Undefined
    THEN [dispatch |-> FALSE, err |-> makeError(SERVICE_UNAVAILABLE, NoProviderMsg),
          targets |-> <<>>]
    ELSE [dispatch |-> TRUE, err |-> NoErr, targets |-> <<i, (i + 1) % Len(ps)>>]

\* A send that reports the missing provider as the caller's fault.
exportsSendBadCode(ps, i) ==
    IF getProvider(ps, i) = Undefined
    THEN [dispatch |-> FALSE, err |-> makeError(BAD_REQUEST, NoProviderMsg),
          targets |-> <<>>]
    ELSE [dispatch |-> TRUE, err |-> NoErr, targets |-> <<i>>]

\* exports.send up to the call of provider.send: without a provider the
\* callback gets an error at once; otherwise the request goes to the
\* provider at the cursor.
exportsSend(ps, i) ==
    IF getProvider(ps, i) = Undefined
    THEN [dispatch |-> FALSE, err |-> makeError(SERVICE_UNAVAILABLE, NoProviderMsg),
          targets |-> <<>>]
    ELSE [dispatch |-> TRUE, err |-> NoErr, targets |-> <<i>>]

(***************************************************************************)
(* mailer.js: the two providers' makeReq.  What is sent is kept as the     *)
(* form or the JSON object the code builds: a form by the names of its     *)
(* fields in the order of the append calls and the values under each name, *)
(* an object by the set of its keys and the value under each.              *)
(***************************************************************************)
NoForm == [fields |-> <<>>, from |-> "", subject |-> <<>>, text |-> <<>>,
           to |-> <<>>, cc |-> <<>>, bcc |-> <<>>]

NoJson == [from |-> [keys |-> {}, email |-> "", name |-> ""],
           subject |-> <<>>,
           content |-> <<>>,
           personalizations |-> <<>>]

NoOut == [provider |-> Undefined, form |-> NoForm, json |-> NoJson]

\* x => x.addr over a list
Addrs(l) == [k \in 1..Len(l) |-> l[k].addr]

\* Mailgun's makeReq: the form.
mailgunMakeReq(mail) ==
    [fields |-> <<"from", "subject", "text">>
                \o [k \in 1..Len(mail.to) |-> "to"]
                \o (IF mail.ccDef THEN [k \in 1..Len(mail.cc) |-> "cc"] ELSE <<>>)
                \o (IF mail.bccDef THEN [k \in 1..Len(mail.bcc) |-> "bcc"] ELSE <<>>),
     from |-> mail.from.addr,
     subject |-> mail.subject,
     text |-> mail.text,
     to |-> Addrs(mail.to),
     cc |-> IF mail.ccDef THEN Addrs(mail.cc) ELSE <<>>,
     bcc |-> IF mail.bccDef THEN Addrs(mail.bcc) ELSE <<>>]

\* An entry that always carries a name key.
PersonNamed(x) == [keys |-> {"email", "name"}, email |-> x.addr, name |-> x.name]

\* { "email": x.addr }, with the name when there is one.
Person(x) ==
    IF x.name # Null
    THEN [keys |-> {"email", "name"}, email |-> x.addr, name |-> x.name]
    ELSE [keys |-> {"email"}, email |-> x.addr, name |-> ""]

Persons(l) == [k \in 1..Len(l) |-> Person(l[k])]

\* A makeReq that sets cc and bcc whether the mail has them or not.
sendgridMakeReqAlways(mail) ==
    [from |-> Person(mail.from),
     subject |-> mail.subject,
     content |-> <<[type |-> "text/plain", value |-> mail.text]>>,
     personalizations |->
        <<[keys |-> {"to", "cc", "bcc"},
           to |-> Persons(mail.to),
           cc |-> Persons(mail.cc),
           bcc |-> Persons(mail.bcc)]>>]

\* Sendgrid's makeReq: the object that is stringified into the body.
sendgridMakeReq(mail) ==
    LET cc == mail.ccDef /\ Len(mail.cc) > 0
        bcc == mail.bccDef /\ Len(mail.bcc) > 0
    IN  [from |-> Person(mail.from),
         subject |-> mail.subject,
         content |-> <<[type |-> "text/plain", value |-> mail.text]>>,
         personalizations |->
            <<[keys |-> {"to"} \cup (IF cc THEN {"cc"} ELSE {})
                              \cup (IF bcc THEN {"bcc"} ELSE {}),
               to |-> Persons(mail.to),
               cc |-> IF cc THEN Persons(mail.cc) ELSE <<>>,
               bcc |-> IF bcc THEN Persons(mail.bcc) ELSE <<>>]>>]

\* this.makeReq( mail ) of the provider of that name.
makeReq(name, mail) ==
    IF name = "Mailgun"
    THEN [provider |-> name, form |-> mailgunMakeReq(mail), json |-> NoJson]
    ELSE [provider |-> name, form |-> NoForm, json |-> sendgridMakeReq(mail)]

(***************************************************************************)
(* mailer.js: initProviders.  The environment gives each variable as       *)
(* undefined or a string (a sequence of words, " " being white space).     *)
(***************************************************************************)
\* String.prototype.toLowerCase on the words used.
toLowerCase(ws) ==
    [k \in 1..Len(ws) |-> IF ws[k] = "SendGrid" THEN "sendgrid" ELSE ws[k]]

\* process.env.X || "", trimmed.
envTrim(v) == IF Truthy(v) THEN StringTrim(v.s) ELSE <<>>

\* An init that does not trim the credentials.
initProvidersNoTrim(e, i) ==
    LET key == IF Truthy(e.mailgunApiKey) THEN e.mailgunApiKey.s ELSE <<>>
        dom == IF Truthy(e.mailgunDomain) THEN e.mailgunDomain.s ELSE <<>>
        sg == IF Truthy(e.sendgridApiKey) THEN e.sendgridApiKey.s ELSE <<>>
    IN  IF key = <<>> THEN [error |-> "Mailgun API key is missing", iProvider |-> i]
        ELSE IF dom = <<>> THEN [error |-> "Mailgun domain is missing", iProvider |-> i]
        ELSE IF sg = <<>> THEN [error |-> "Sendgrid API key is missing", iProvider |-> i]
        ELSE [error |-> Null,
              iProvider |-> IF Truthy(e.provider)
                               /\ toLowerCase(StringTrim(e.provider.s)) = <<"sendgrid">>
                            THEN 1 ELSE i]

\* initProviders(): the error message, or null and the start cursor.  The
\* two providers of the array both have a makeReq.
initProviders(e, i) ==
    LET key == envTrim(e.mailgunApiKey)
        dom == envTrim(e.mailgunDomain)
        sg == envTrim(e.sendgridApiKey)
    IN  IF key = <<>> THEN [error |-> "Mailgun API key is missing", iProvider |-> i]
        ELSE IF dom = <<>> THEN [error |-> "Mailgun domain is missing", iProvider |-> i]
        ELSE IF sg = <<>> THEN [error |-> "Sendgrid API key is missing", iProvider |-> i]
        ELSE [error |-> Null,
              iProvider |-> IF Truthy(e.provider)
                               /\ toLowerCase(StringTrim(e.provider.s)) = <<"sendgrid">>
                            THEN 1 ELSE i]

(***************************************************************************)
(* State.                                                                  *)
(*   providers  the array of providers (their names)                       *)
(*   iProvider  the cursor                                                 *)
(*   reqs       the deliver calls that reached a provider, in the order of *)
(*              their dispatch                                             *)
(*   last       what the latest run of handleMail did                      *)
(*   crashed    an exception left a listener of an outbound request        *)
(*   boot       the process: its environment, whether it is starting,      *)
(*              serving or has exited, and what mailer.init returned       *)
(***************************************************************************)
VARIABLES providers, iProvider, reqs, last, crashed, boot

vars == <<providers, iProvider, reqs, last, crashed, boot>>

\* The environments: each credential undefined, blank or set; EMAIL_PROVIDER
\* undefined, mailgun or sendgrid.
Key == Str(<<" ", "key", " ">>)

Envs ==
    [mailgunApiKey : {Undef, Str(<<" ">>), Key},
     mailgunDomain : {Undef, Str(<<" ">>), Key},
     sendgridApiKey : {Undef, Str(<<" ">>), Key},
     provider : {Undef, Str(<<"mailgun">>), Str(<<" ", "SendGrid", " ">>)}]

\* The environments of the test script: the credentials set, EMAIL_PROVIDER
\* unset or sendgrid.
TestEnvs ==
    [mailgunApiKey : {Key}, mailgunDomain : {Key}, sendgridApiKey : {Key},
     provider : {Undef, Str(<<" ", "SendGrid", " ">>)}]

\* The process after a successful mailer.init, listening.
Serving == boot.phase = "serving"

N == Len(providers)

EmptyBody == [from |-> Undef, to |-> Undef, cc |-> Undef, bcc |-> Undef,
              subject |-> Undef, text |-> Undef]

\* The submission of the concrete scenario: from=a@x.com&to=b@x.com&subject=Hi&text=Hello
Good == [from |-> Str(<<"a@x.com">>), to |-> Str(<<"b@x.com">>), cc |-> Undef,
         bcc |-> Undef, subject |-> Str(<<"Hi">>), text |-> Str(<<"Hello">>)]

Repeated == Arr(<<"a@x.com", "b@x.com">>)

\* The values a posted field takes.
FieldVals(f) ==
    IF f \in {"subject", "text"}
    THEN {Undef, Str(<<>>), Str(<<" ">>), Str(<<" ", "Hi", " ">>), Repeated}
    ELSE {Undef, Str(<<>>), Str(<<" ", " ">>), Str(<<" ", "a@x.com", " ">>),
          Str(<<"Bob <b@x.com>">>), Str(<<"a@x.com", "Bob <b@x.com>">>),
          Str(<<"bad">>), Repeated}

\* The submissions posted when validation is examined: the good one and
\* the one with a malformed from, each with one more field changed, and the
\* one with a repeated cc with one mandatory field absent (trim throws on
\* the repeated field whatever the other fields hold).
Bodies ==
    UNION { { [b EXCEPT ![Fields[k]] = v] : v \in FieldVals(Fields[k]) } :
              b \in {Good, [Good EXCEPT !.from = Str(<<"bad">>)]},
              k \in 1..Len(Fields) }
    \cup { [Good EXCEPT !.cc = Repeated, ![f] = Undef] :
              f \in {"from", "to", "subject", "text"} }

\* The submissions posted when exceptions are injected: the good one, one
\* with each mandatory field missing or blank, a malformed from, and a
\* repeated cc field.
CoreBodies ==
    { Good,
      [Good EXCEPT !.from = Undef],
      [Good EXCEPT !.to = Str(<<" ">>)],
      [Good EXCEPT !.subject = Undef],
      [Good EXCEPT !.text = Str(<<" ", " ">>)],
      [Good EXCEPT !.from = Str(<<"bad">>)],
      [Good EXCEPT !.cc = Repeated],
      [Good EXCEPT !.from = Undef, !.cc = Repeated] }

NoLast == [posted |-> FALSE, body |-> EmptyBody, resp |-> <<>>, escaped |-> FALSE,
           delivered |-> FALSE, nOut |-> 0, cb |-> <<>>, pre |-> 0,
           mail |-> NoMail, out |-> NoOut]

\* The two providers of the program, and the start cursor: 0, or 1 when
\* EMAIL_PROVIDER is sendgrid.
Init ==
    /\ providers = <<"Mailgun", "SendGrid">>
    /\ boot \in [phase : {"serving"}, env : TestEnvs, error : {Null}]
    /\ iProvider = initProviders(boot.env, 0).iProvider
    /\ reqs = <<>>
    /\ last = NoLast
    /\ crashed = FALSE

InFlight(r) == r.listeners # {}

\* A dispatch that picks the provider per call, in turn.
NewReqInTurn(targets) ==
    [cur |-> (iProvider + Len(reqs)) % N,
     sent |-> <<(iProvider + Len(reqs)) % N>>,
     alone |-> \A k \in 1..Len(reqs) : ~InFlight(reqs[k]),
     listeners |-> {"response", "error", "timeout"},
     ev |-> "none",
     status |-> 0,
     resp |-> <<>>,
     ncb |-> 0,
     cbCursor |-> -1,
     err |-> NoErr]

\* The record of a call just handed to its provider.
NewReq(targets) ==
    [cur |-> iProvider,
     sent |-> targets,
     alone |-> \A k \in 1..Len(reqs) : ~InFlight(reqs[k]),
     listeners |-> {"response", "error", "timeout"},
     ev |-> "none",
     status |-> 0,
     resp |-> <<>>,
     ncb |-> 0,
     cbCursor |-> -1,
     err |-> NoErr]

\* A handler whose validation looks at the cursor: it rejects every
\* submission while the cursor is at the second provider.
HandleMailByCursor(body, logThrows, makeReqThrows, max) ==
    /\ Serving
    /\ ~crashed
    /\ LET v == assembleMail(body, logThrows)
           base == [NoLast EXCEPT !.posted = TRUE, !.body = body, !.pre = iProvider]
       IN  IF iProvider = 1 \/ v.threw \/ v.error # ""
           THEN /\ last' = [base EXCEPT !.resp = <<[code |-> BAD_REQUEST, body |-> v.error]>>]
                /\ UNCHANGED reqs
           ELSE /\ Len(reqs) < max
                /\ reqs' = Append(reqs, NewReq(<<iProvider>>))
                /\ last' = [base EXCEPT !.delivered = TRUE, !.nOut = 1, !.mail = v.mail,
                                        !.out = makeReq(providers[iProvider + 1], v.mail)]
    /\ UNCHANGED <<providers, iProvider, crashed, boot>>

\* handleMail( req, res ) up to its return.  makeReqThrows: the provider's
\* makeReq throws; max: the bound on the calls that reach a provider.
HandleMail(body, logThrows, makeReqThrows, max) ==
    /\ Serving
    /\ ~crashed
    /\ LET v == assembleMail(body, logThrows)
           s == exportsSend(providers, iProvider)
           base == [NoLast EXCEPT !.posted = TRUE, !.body = body,
                                  !.pre = iProvider, !.mail = v.mail]
           caught == internalError(<<>>, logThrows)
       IN  IF v.threw
           THEN /\ last' = [base EXCEPT !.resp = caught.resp, !.escaped = caught.threw]
                /\ UNCHANGED reqs
           ELSE IF v.error # ""
           THEN /\ last' = IF logThrows
                           THEN [base EXCEPT !.resp = caught.resp, !.escaped = caught.threw]
                           ELSE [base EXCEPT !.resp = <<[code |-> BAD_REQUEST, body |-> v.error]>>]
                /\ UNCHANGED reqs
           ELSE IF ~s.dispatch
           THEN LET r == indexCallback(<<>>, s.err, logThrows)
                    o == IF r.threw THEN internalError(r.resp, logThrows) ELSE r
                IN  /\ last' = [base EXCEPT !.resp = o.resp, !.escaped = o.threw,
                                            !.delivered = TRUE, !.cb = <<s.err.code>>]
                    /\ UNCHANGED reqs
           ELSE IF makeReqThrows
           THEN /\ last' = [base EXCEPT !.resp = caught.resp, !.escaped = caught.threw,
                                        !.delivered = TRUE]
                /\ UNCHANGED reqs
           ELSE /\ Len(reqs) < max
                /\ reqs' = Append(reqs, NewReq(s.targets))
                /\ last' = [base EXCEPT !.delivered = TRUE, !.nOut = Len(s.targets),
                                        !.out = makeReq(providers[s.targets[1] + 1],
                                                        v.mail)]
    /\ UNCHANGED <<providers, iProvider, crashed, boot>>

\* What a listener's run leaves in the call's record and in the cursor.
Complete(k, ev, status, r, left) ==
    /\ reqs' = [reqs EXCEPT ![k] = [@ EXCEPT !.listeners = left, !.ev = ev,
                                             !.status = status, !.resp = r.resp,
                                             !.ncb = r.ncb, !.cbCursor = r.cbCursor,
                                             !.err = r.err]]
    /\ iProvider' = r.cursor
    /\ crashed' = r.threw
    /\ UNCHANGED <<providers, last, boot>>

Ctx(k) == [resp |-> reqs[k].resp, threw |-> FALSE, cursor |-> iProvider,
           ncb |-> reqs[k].ncb, cbCursor |-> reqs[k].cbCursor, err |-> reqs[k].err]

\* The "response" event of call k's outbound request.
OnResponse(k, status, logThrows) ==
    /\ Serving
    /\ ~crashed
    /\ "response" \in reqs[k].listeners
    /\ Complete(k, "response", status,
                onResponse(Ctx(k), providers[reqs[k].cur + 1], status, N, logThrows), {})

\* The "error" event: when the callback throws, abort and removeAllListeners
\* are not reached.
OnError(k, logThrows) ==
    /\ Serving
    /\ ~crashed
    /\ "error" \in reqs[k].listeners
    /\ LET r == onError(Ctx(k), TransportMsg, N, logThrows) IN
       Complete(k, "error", 0, r,
                IF r.threw THEN reqs[k].listeners \ {"error"} ELSE {})

\* The "timeout" event.
OnTimeout(k, logThrows) ==
    /\ Serving
    /\ ~crashed
    /\ "timeout" \in reqs[k].listeners
    /\ LET r == onTimeout(Ctx(k), N, logThrows) IN
       Complete(k, "timeout", 0, r,
                IF r.threw THEN reqs[k].listeners \ {"timeout"} ELSE {})

\* The program with a logger and adapters that do not throw, serving
\* well-formed submissions.
Next ==
    \/ HandleMail(Good, FALSE, FALSE, MaxReqs)
    \/ \E k \in 1..Len(reqs), st \in Statuses : OnResponse(k, st, FALSE)
    \/ \E k \in 1..Len(reqs) : OnError(k, FALSE)
    \/ \E k \in 1..Len(reqs) : OnTimeout(k, FALSE)

Spec == Init /\ [][Next]_vars

\* The same program serving every kind of submission.
NextV ==
    \/ \E b \in Bodies : HandleMail(b, FALSE, FALSE, MaxPosts)
    \/ \E k \in 1..Len(reqs), st \in Statuses : OnResponse(k, st, FALSE)
    \/ \E k \in 1..Len(reqs) : OnError(k, FALSE)
    \/ \E k \in 1..Len(reqs) : OnTimeout(k, FALSE)

SpecV == Init /\ [][NextV]_vars

\* The same program where a handler's logger calls, or makeReq, may throw.
NextFault ==
    \/ \E b \in CoreBodies, lt \in BOOLEAN, mt \in BOOLEAN : HandleMail(b, lt, mt, MaxPosts)
    \/ \E k \in 1..Len(reqs), st \in Statuses, lt \in BOOLEAN : OnResponse(k, st, lt)
    \/ \E k \in 1..Len(reqs), lt \in BOOLEAN : OnError(k, lt)
    \/ \E k \in 1..Len(reqs), lt \in BOOLEAN : OnTimeout(k, lt)

SpecFault == Init /\ [][NextFault]_vars

\* The program over provider arrays of every length up to two.
InitCfg ==
    /\ providers \in {<<>>, <<"Mailgun">>, <<"Mailgun", "SendGrid">>}
    /\ boot \in [phase : {"serving"}, env : TestEnvs, error : {Null}]
    /\ iProvider = initProviders(boot.env, 0).iProvider
    /\ reqs = <<>>
    /\ last = NoLast
    /\ crashed = FALSE

SpecCfg == InitCfg /\ [][Next]_vars

\* index.js 32-36: mailer.init() at start-up; on an error the process
\* exits, otherwise the server is set up and listens.
Start ==
    /\ boot.phase = "boot"
    /\ LET r == initProviders(boot.env, iProvider) IN
       /\ boot' = [boot EXCEPT !.phase = IF r.error # Null THEN "exited" ELSE "serving",
                               !.error = r.error]
       /\ iProvider' = r.iProvider
    /\ UNCHANGED <<providers, reqs, last, crashed>>

\* The process from its start, under every environment.
InitBoot ==
    /\ providers = <<"Mailgun", "SendGrid">>
    /\ boot \in [phase : {"boot"}, env : Envs, error : {Null}]
    /\ iProvider = 0
    /\ reqs = <<>>
    /\ last = NoLast
    /\ crashed = FALSE

NextBoot ==
    \/ Start
    \/ \E b \in CoreBodies : HandleMail(b, FALSE, FALSE, MaxPosts)
    \/ \E k \in 1..Len(reqs), st \in Statuses : OnResponse(k, st, FALSE)
    \/ \E k \in 1..Len(reqs) : OnError(k, FALSE)
    \/ \E k \in 1..Len(reqs) : OnTimeout(k, FALSE)

SpecBoot == InitBoot /\ [][NextBoot]_vars

\* The server when the same submissions are posted again and again.
NextD ==
    \/ \E b \in CoreBodies : HandleMail(b, FALSE, FALSE, MaxFew)
    \/ \E k \in 1..Len(reqs), st \in Statuses : OnResponse(k, st, FALSE)
    \/ \E k \in 1..Len(reqs) : OnError(k, FALSE)
    \/ \E k \in 1..Len(reqs) : OnTimeout(k, FALSE)

SpecD == Init /\ [][NextD]_vars

\* The server when the providers answer with more status codes.
NextS ==
    \/ HandleMail(Good, FALSE, FALSE, MaxFew)
    \/ \E k \in 1..Len(reqs), st \in MoreStatuses : OnResponse(k, st, FALSE)
    \/ \E k \in 1..Len(reqs) : OnError(k, FALSE)
    \/ \E k \in 1..Len(reqs) : OnTimeout(k, FALSE)

SpecS == Init /\ [][NextS]_vars

\* The server with the idle timer of each outbound request: a request made
\* with timeout: 15000 that gets no response and no error has its "timeout"
\* event fired.
NextLive ==
    \/ HandleMail(Good, FALSE, FALSE, MaxFew)
    \/ \E k \in 1..Len(reqs), st \in Statuses : OnResponse(k, st, FALSE)
    \/ \E k \in 1..Len(reqs) : OnError(k, FALSE)
    \/ \E k \in 1..Len(reqs) : OnTimeout(k, FALSE)

IdleTimeout(k) == k \in DOMAIN reqs /\ OnTimeout(k, FALSE)

SpecLive ==
    /\ Init
    /\ [][NextLive]_vars
    /\ \A k \in 1..MaxFew : WF_vars(IdleTimeout(k))

(***************************************************************************)
(* Properties.                                                             *)
(***************************************************************************)
Done(r) == r.ev # "none"
Success(r) == r.ev = "response" /\ r.status \in {OK, ACCEPTED}
Rejected(r) == r.ev = "response" /\ r.status = BAD_REQUEST
ProviderError(r) == Done(r) /\ ~Success(r) /\ ~Rejected(r)

\* Call k's outbound request ends in this step.
Completes(k) == ~Done(reqs[k]) /\ Done(reqs'[k])

Generic500 == <<[code |-> INTERNAL_SERVER_ERROR, body |-> GenericMsg]>>
Empty200 == <<[code |-> OK, body |-> ""]>>

\* C1: when the provider answers 400, the caller receives 400 with the
\* provider's detail and the cursor keeps its value.
C1_Provider400KeepsCursor ==
    [][\A k \in 1..Len(reqs) :
          (Completes(k) /\ Rejected(reqs'[k])) =>
              /\ reqs'[k].resp = <<[code |-> BAD_REQUEST, body |-> StatusMessage(BAD_REQUEST)]>>
              /\ iProvider' = iProvider]_vars

\* C2: a call dispatched while no other call is in flight and ending in a
\* non-400 error status, a transport error or a timeout gives the caller
\* 500 and leaves the cursor at (cursor at dispatch + 1) mod N.
C2_FailureAdvancesFromDispatch ==
    [][\A k \in 1..Len(reqs) :
          (Completes(k) /\ ProviderError(reqs'[k]) /\ reqs[k].alone) =>
              /\ reqs'[k].resp = Generic500
              /\ iProvider' = (reqs[k].cur + 1) % N]_vars

\* C3: a provider answer of 200 or 202 gives the caller 200 with an empty
\* body and leaves the cursor unchanged; as long as every completed call
\* succeeded, every call was dispatched to the same provider.
C3_SuccessKeepsCursor ==
    /\ [][\A k \in 1..Len(reqs) :
             (Completes(k) /\ Success(reqs'[k])) =>
                 (reqs'[k].resp = Empty200 /\ iProvider' = iProvider)]_vars
    /\ []((\A k \in 1..Len(reqs) : Done(reqs[k]) => Success(reqs[k]))
            => (\A j, k \in 1..Len(reqs) : reqs[j].sent = reqs[k].sent))

C3_Witness ==
    /\ Len(reqs) = 3
    /\ \A k \in 1..3 : Success(reqs[k]) /\ reqs[k].resp = Empty200
    /\ \E k \in 1..3 : reqs[k].status = ACCEPTED
    /\ iProvider = reqs[1].cur

Mandatory == {"from", "to", "subject", "text"}

\* The mandatory fields of a body that are absent or empty after trimming.
Missing(b) ==
    {f \in Mandatory : b[f].t = "undef" \/ (b[f].t = "str" /\ StringTrim(b[f].s) = <<>>)}

\* C4: a submission with a mandatory field absent or blank gets 400 with a
\* reason naming such a field, makes no outbound request and leaves the
\* cursor unchanged.
C4_MissingFieldIs400 ==
    /\ []((last.posted /\ Missing(last.body) # {}) =>
            /\ Len(last.resp) = 1
            /\ last.resp[1].code = BAD_REQUEST
            /\ last.resp[1].body \in {MissingMsg(f) : f \in Missing(last.body)}
            /\ last.nOut = 0
            /\ ~last.delivered)
    /\ [][(last' # last /\ Missing(last'.body) # {}) =>
             (iProvider' = iProvider /\ reqs' = reqs)]_vars

\* C5: a deliver call makes exactly one outbound request, to the provider
\* at the cursor when it is dispatched, and nothing later adds a request
\* or redirects it.
C5_OneRequestPerCall ==
    /\ [](last.delivered => last.nOut = 1)
    /\ [][/\ Len(reqs') > Len(reqs) =>
               (Len(reqs') = Len(reqs) + 1 /\ reqs'[Len(reqs')].sent = <<iProvider>>)
          /\ \A k \in 1..Len(reqs) : reqs'[k].sent = reqs[k].sent]_vars

C5_Witness ==
    \E j, k \in 1..Len(reqs) :
        /\ ProviderError(reqs[j])
        /\ InFlight(reqs[k])
        /\ reqs[k].cur = reqs[j].cur
        /\ iProvider # reqs[k].cur
        /\ reqs[k].sent = <<reqs[k].cur>>

\* C6: when several calls dispatched at cursor c all end in provider-error,
\* the cursor afterwards is (c + 1) mod N.
C6_ConcurrentFailuresAdvanceOnce ==
    (/\ Len(reqs) >= 2
     /\ \A k \in 1..Len(reqs) : reqs[k].cur = reqs[1].cur /\ ProviderError(reqs[k]))
        => iProvider = (reqs[1].cur + 1) % N

\* C7: on a provider-error the cursor the caller's callback sees is already
\* the advanced one.
C7_AdvanceBeforeCallback ==
    [][\A k \in 1..Len(reqs) :
          (Completes(k) /\ ProviderError(reqs'[k])) =>
              reqs'[k].cbCursor = (iProvider + 1) % N]_vars

\* The first call started at cursor 0 and was answered 200.
FirstOk == Len(reqs) >= 1 /\ reqs[1].cur = 0 /\ reqs[1].ev = "response" /\ reqs[1].status = OK

\* The second call came after the first and was answered 503.
SecondFails ==
    /\ FirstOk
    /\ Len(reqs) >= 2
    /\ reqs[2].alone
    /\ reqs[2].ev = "response"
    /\ reqs[2].status = SERVICE_UNAVAILABLE

\* C8: from cursor 0, a 200 gives 200 and leaves the cursor at 0; the next
\* submission, answered 503 by provider 0, gives 500 and moves the cursor
\* to 1; a third submission goes to provider 1.
C8_SequentialScenario ==
    /\ FirstOk => reqs[1].resp = Empty200
    /\ (FirstOk /\ Len(reqs) = 1) => iProvider = 0
    /\ (FirstOk /\ Len(reqs) >= 2 /\ reqs[2].alone) => reqs[2].sent = <<0>>
    /\ SecondFails => reqs[2].resp = Generic500
    /\ (SecondFails /\ Len(reqs) = 2) => iProvider = 1
    /\ (SecondFails /\ Len(reqs) >= 3 /\ reqs[3].alone) => reqs[3].sent = <<1>>

C8_Witness == SecondFails /\ Len(reqs) >= 3 /\ reqs[3].alone /\ reqs[3].sent = <<1>>

\* handleMail called mailer.send and there was no provider at the cursor.
NoProviderCase ==
    last.posted /\ last.delivered /\ getProvider(providers, last.pre) = Undefined

\* C9: without a provider at the cursor, mailer.send reports a 503 error to
\* its callback at once, makes no outbound request, leaves the cursor
\* unchanged, and the caller receives 500.
C9_NoProviderIsUnavailable ==
    /\ [](NoProviderCase =>
            /\ last.cb = <<SERVICE_UNAVAILABLE>>
            /\ last.nOut = 0
            /\ last.resp = Generic500)
    /\ [][(last' # last /\ getProvider(providers, iProvider) = Undefined) =>
             (iProvider' = iProvider /\ reqs' = reqs)]_vars

C9_Witness == NoProviderCase /\ last.resp = Generic500 /\ reqs = <<>>

\* C10: every exception raised while a request is handled is turned into a
\* 500: every request ends with exactly one response out of 200, 400 and
\* 500, and no exception leaves a listener of the outbound request, so the
\* server keeps serving.
C10_NoErrorEscapes ==
    /\ ~crashed
    /\ (last.posted /\ last.nOut = 0) =>
          (Len(last.resp) = 1 /\ last.resp[1].code \in {OK, BAD_REQUEST, INTERNAL_SERVER_ERROR})
    /\ \A k \in 1..Len(reqs) :
          Done(reqs[k]) =>
              /\ Len(reqs[k].resp) = 1
              /\ reqs[k].resp[1].code \in {OK, BAD_REQUEST, INTERNAL_SERVER_ERROR}

\* The credentials of an environment that are absent or blank.
MissingCreds(e) ==
    {c \in {"mailgunApiKey", "mailgunDomain", "sendgridApiKey"} :
        e[c].t = "undef" \/ StringTrim(e[c].s) = <<>>}

\* C11: the server serves only when the three credentials are present and
\* non-empty after trimming; when one is missing, init returns an error, the
\* process exits, and no deliver call or cursor change ever happens.
C11_NoServingWithoutCredentials ==
    /\ [](Serving => MissingCreds(boot.env) = {})
    /\ []((MissingCreds(boot.env) # {} /\ boot.phase # "boot") =>
            (boot.phase = "exited" /\ boot.error # Null))
    /\ [](MissingCreds(boot.env) # {} =>
            (reqs = <<>> /\ ~last.posted /\ iProvider = 0))

C11_Witness ==
    /\ boot.phase = "exited"
    /\ boot.env.mailgunApiKey = Key
    /\ boot.env.mailgunDomain = Key
    /\ boot.env.sendgridApiKey = Str(<<" ">>)
    /\ boot.error = "Sendgrid API key is missing"

\* A field that is absent or empty after trimming.
Blank(v) == v.t = "undef" \/ (v.t = "str" /\ StringTrim(v.s) = <<>>)

\* The addresses written in a string field: one per word when every word is
\* a well-formed address, none otherwise.
Written(v) ==
    LET ws == StringTrim(v.s) IN
    IF \A k \in 1..Len(ws) : ws[k] \in DOMAIN AddrBook THEN ws ELSE <<>>

\* A string field holding at least one address and nothing else.
Parses(v) == v.t = "str" /\ Written(v) # <<>>

\* A repeated field whose entries are well-formed addresses.
RepeatedAddrs(v) ==
    v.t = "arr" /\ v.s # <<>> /\ \A k \in 1..Len(v.s) : v.s[k] \in DOMAIN AddrBook

\* The fields of a body other than those of fs are valid.
ValidExcept(b, fs) ==
    \A f \in {"from", "to", "cc", "bcc", "subject", "text"} \ fs :
        CASE f = "from" -> Parses(b[f]) /\ Len(Written(b[f])) = 1
          [] f = "to" -> Parses(b[f])
          [] f \in {"cc", "bcc"} -> Blank(b[f]) \/ Parses(b[f])
          [] OTHER -> b[f].t = "str" /\ ~Blank(b[f])

\* The number of addresses a from value holds: those written in a string,
\* the entries of a repeated field.
Count(v) ==
    IF v.t = "str" THEN Len(Written(v))
    ELSE IF RepeatedAddrs(v) THEN Len(v.s) ELSE 0

\* C12: in a submission whose other fields are valid, a from value holding
\* no address or more than one gets 400; with a single well-formed address
\* validation succeeds and the mail's from holds the display name and the
\* bare address separately.
C12_SingleFromAddress ==
    (last.posted /\ ValidExcept(last.body, {"from"}) /\ ~Blank(last.body.from)) =>
        /\ Count(last.body.from) # 1 =>
              /\ Len(last.resp) = 1
              /\ last.resp[1].code = BAD_REQUEST
              /\ ~last.delivered
        /\ Count(last.body.from) = 1 =>
              /\ last.delivered
              /\ last.mail.from =
                    [name |-> AddrBook[Written(last.body.from)[1]].name,
                     addr |-> AddrBook[Written(last.body.from)[1]].address]

\* C13: an otherwise valid submission whose cc or bcc is a repeated form
\* field is accepted as the comma-joined form is: it is handed to the
\* mailer and the mail's cc (bcc) holds every repeated entry.
C13_RepeatedCcAccepted ==
    (/\ last.posted
     /\ ValidExcept(last.body, {"cc", "bcc"})
     /\ \A f \in {"cc", "bcc"} :
           Blank(last.body[f]) \/ Parses(last.body[f]) \/ RepeatedAddrs(last.body[f])
     /\ \E f \in {"cc", "bcc"} : RepeatedAddrs(last.body[f])) =>
        /\ last.delivered
        /\ last.nOut = 1
        /\ RepeatedAddrs(last.body.cc) =>
              (last.mail.ccDef /\ Addrs(last.mail.cc) =
                  [k \in 1..Len(last.body.cc.s) |-> AddrBook[last.body.cc.s[k]].address])
        /\ RepeatedAddrs(last.body.bcc) =>
              (last.mail.bccDef /\ Addrs(last.mail.bcc) =
                  [k \in 1..Len(last.body.bcc.s) |-> AddrBook[last.body.bcc.s[k]].address])

\* The elements of a sequence.
Range(q) == {q[k] : k \in 1..Len(q)}

\* C14: a submission without cc and bcc is handed to the provider, the
\* Sendgrid object has no cc or bcc key in its personalizations entry, the
\* Mailgun form has no cc or bcc field, and when the provider accepts it
\* the caller gets 200.
C14_NoCcNoBccOmitted ==
    (/\ last.posted
     /\ ValidExcept(last.body, {"cc", "bcc"})
     /\ Blank(last.body.cc)
     /\ Blank(last.body.bcc)) =>
        /\ last.delivered
        /\ last.nOut = 1
        /\ ~last.mail.ccDef
        /\ ~last.mail.bccDef
        /\ last.out.provider = providers[last.pre + 1]
        /\ last.out.provider = "Mailgun" =>
              /\ Range(last.out.form.fields) = {"from", "subject", "text", "to"}
              /\ last.out.form.cc = <<>>
              /\ last.out.form.bcc = <<>>
        /\ last.out.provider = "SendGrid" =>
              /\ Len(last.out.json.personalizations) = 1
              /\ last.out.json.personalizations[1].keys = {"to"}
        /\ Success(reqs[Len(reqs)]) => reqs[Len(reqs)].resp = Empty200

C14_Witness ==
    /\ last.posted
    /\ last.body = Good
    /\ last.out.provider = "SendGrid"
    /\ last.out.json.personalizations[1].keys = {"to"}
    /\ Success(reqs[Len(reqs)])
    /\ reqs[Len(reqs)].resp = Empty200

\* What validation made of the latest submission: the mail, or the answer
\* it gave.
Verdict(l) == [ok |-> l.delivered, mail |-> l.mail,
               answer |-> IF l.delivered THEN <<>> ELSE l.resp]

C16_OutageIsGeneric500 ==
    /\ \A k \in 1..Len(reqs) :
          ProviderError(reqs[k]) =>
              /\ reqs[k].resp = Generic500
              /\ reqs[k].err.code = INTERNAL_SERVER_ERROR
              /\ reqs[k].err.message # reqs[k].resp[1].body
    /\ \A j, k \in 1..Len(reqs) :
          (ProviderError(reqs[j]) /\ ProviderError(reqs[k])) => reqs[j].resp = reqs[k].resp

C16_Witness ==
    \E j, k \in 1..Len(reqs) :
        /\ ProviderError(reqs[j])
        /\ ProviderError(reqs[k])
        /\ reqs[j].cur = reqs[k].cur
        /\ reqs[j].ev = "response"
        /\ reqs[k].ev = "timeout"
        /\ reqs[j].err.message # reqs[k].err.message
        /\ reqs[j].resp = reqs[k].resp

\* C17: every deliver call that reached a provider eventually completes:
\* its request ends in a response, a transport error or the idle timeout,
\* and the timeout removes the listeners and gives the provider-error
\* outcome: 500 to the caller and the cursor advanced.
C17_NoZombieRequests ==
    /\ \A k \in 1..MaxFew : [](k \in DOMAIN reqs => <>(k \in DOMAIN reqs /\ Done(reqs[k])))
    /\ [][\A k \in 1..Len(reqs) :
             (Completes(k) /\ reqs'[k].ev = "timeout") =>
                 /\ reqs'[k].resp = Generic500
                 /\ reqs'[k].listeners = {}
                 /\ iProvider' = (iProvider + 1) % N]_vars

C17_Witness ==
    \E k \in 1..Len(reqs) :
        /\ reqs[k].ev = "timeout"
        /\ reqs[k].resp = Generic500
        /\ iProvider # reqs[k].cur
        /\ \A j \in 1..Len(reqs) : Done(reqs[j])

\* The first check of validation a body fails, in the order from, to,
\* subject, text present, then from, to, cc, bcc well-formed; "" when it
\* fails none.
FirstFailure(b) ==
    IF Blank(b.from) THEN MissingMsg("from")
    ELSE IF Blank(b.to) THEN MissingMsg("to")
    ELSE IF Blank(b.subject) THEN MissingMsg("subject")
    ELSE IF Blank(b.text) THEN MissingMsg("text")
    ELSE IF ~(Parses(b.from) /\ Len(Written(b.from)) = 1) THEN InvalidMsg("from")
    ELSE IF ~Parses(b.to) THEN InvalidMsg("to")
    ELSE IF ~(Blank(b.cc) \/ Parses(b.cc)) THEN InvalidMsg("cc")
    ELSE IF ~(Blank(b.bcc) \/ Parses(b.bcc)) THEN InvalidMsg("bcc")
    ELSE ""

C19_ThreeWayClassification ==
    /\ [](\A k \in 1..Len(reqs) :
            reqs[k].ev = "response" =>
                /\ reqs[k].status \in {OK, ACCEPTED} =>
                      (reqs[k].err = NoErr /\ reqs[k].resp = Empty200)
                /\ reqs[k].status = BAD_REQUEST =>
                      (reqs[k].err.code = BAD_REQUEST /\ reqs[k].resp[1].code = BAD_REQUEST)
                /\ reqs[k].status \notin {OK, ACCEPTED, BAD_REQUEST} =>
                      (reqs[k].err.code = INTERNAL_SERVER_ERROR /\ reqs[k].resp = Generic500))
    /\ [][\A k \in 1..Len(reqs) :
             (Completes(k) /\ reqs'[k].ev = "response"
                /\ reqs'[k].status \notin {OK, ACCEPTED, BAD_REQUEST}) =>
                 iProvider' = (iProvider + 1) % N]_vars

C19_Witness ==
    \E j, k \in 1..Len(reqs) :
        /\ reqs[j].ev = "response"
        /\ reqs[j].status = 201
        /\ reqs[j].resp = Generic500
        /\ reqs[k].ev = "response"
        /\ reqs[k].status = 404
        /\ reqs[k].resp = Generic500

\* C20: deliver calls dispatched before any of them completes all read the
\* same cursor and go to the same provider; an execution exists in which
\* two such calls go to one provider that then fails both.
C20_ConcurrentCallsShareProvider ==
    (\A k \in 1..Len(reqs) : ~Done(reqs[k])) =>
        \A k \in 1..Len(reqs) : reqs[k].cur = iProvider /\ reqs[k].sent = <<iProvider>>

C20_Witness ==
    /\ Len(reqs) >= 2
    /\ ~reqs[2].alone
    /\ reqs[1].cur = reqs[2].cur
    /\ reqs[1].sent = reqs[2].sent
    /\ ProviderError(reqs[1])
    /\ ProviderError(reqs[2])

\* C21: when every provider errors on every request, every request gets
\* 500 and none is retried (one outbound request and one callback per
\* call); in a sequential run the calls visit the providers round-robin
\* from the first call's cursor, and the cursor is back at its value after
\* every N consecutive failures.
C21_AllProvidersFail ==
    (\A k \in 1..Len(reqs) : Done(reqs[k]) => ProviderError(reqs[k])) =>
        /\ \A k \in 1..Len(reqs) :
              /\ Len(reqs[k].sent) = 1
              /\ Done(reqs[k]) => (reqs[k].resp = Generic500 /\ reqs[k].ncb = 1)
        /\ (\A k \in 1..Len(reqs) : reqs[k].alone) =>
              /\ \A k \in 1..Len(reqs) : reqs[k].cur = (reqs[1].cur + k - 1) % N
              /\ \A k \in 1..Len(reqs) :
                    k + N <= Len(reqs) => reqs[k + N].cur = reqs[k].cur
              /\ (\A k \in 1..Len(reqs) : Done(reqs[k])) =>
                    iProvider = (initProviders(boot.env, 0).iProvider + Len(reqs)) % N

C21_Witness ==
    /\ Len(reqs) = 3
    /\ \A k \in 1..3 : reqs[k].alone /\ ProviderError(reqs[k]) /\ reqs[k].resp = Generic500
    /\ reqs[2].cur # reqs[1].cur
    /\ reqs[3].cur = reqs[1].cur
    /\ iProvider = reqs[2].cur

\* What the address parser makes of the addresses written in a field.
Entries(v) ==
    IF Blank(v) THEN <<>>
    ELSE [k \in 1..Len(Written(v)) |-> AddrBook[Written(v)[k]]]

\* The bare addresses and the display names of a list of entries.
Bare(es) == [k \in 1..Len(es) |-> es[k].address]
Names(es) == {es[k].name : k \in 1..Len(es)} \ {Null}

\* A Sendgrid entry made of a parsed address: the email, and the name key
\* exactly when the address has a display name.
IsPerson(p, e) ==
    /\ p.email = e.address
    /\ p.keys = IF e.name # Null THEN {"email", "name"} ELSE {"email"}
    /\ e.name # Null => p.name = e.name

ArePersons(ps, es) ==
    Len(ps) = Len(es) /\ \A k \in 1..Len(es) : IsPerson(ps[k], es[k])

\* C22: for every mail handed to a provider, Mailgun's form carries the
\* bare address of from and of each to, cc and bcc entry and never a
\* display name; Sendgrid's object carries { email, name } with the name
\* key present exactly when the address has a display name.
C22_DisplayNameAsymmetry ==
    (last.posted /\ last.nOut = 1) =>
        LET b == last.body
            f == last.out.form
            j == last.out.json
            all == Entries(b.from) \o Entries(b.to) \o Entries(b.cc) \o Entries(b.bcc)
        IN  /\ last.out.provider = "Mailgun" =>
                  /\ f.from = Entries(b.from)[1].address
                  /\ f.to = Bare(Entries(b.to))
                  /\ f.cc = Bare(Entries(b.cc))
                  /\ f.bcc = Bare(Entries(b.bcc))
                  /\ Len(f.fields) = 2 + Len(all)
                  /\ Names(all) \cap ({f.from} \cup Range(f.to) \cup Range(f.cc)
                                        \cup Range(f.bcc)) = {}
            /\ last.out.provider = "SendGrid" =>
                  /\ IsPerson(j.from, Entries(b.from)[1])
                  /\ Len(j.personalizations) = 1
                  /\ ArePersons(j.personalizations[1].to, Entries(b.to))
                  /\ ArePersons(j.personalizations[1].cc, Entries(b.cc))
                  /\ ArePersons(j.personalizations[1].bcc, Entries(b.bcc))

C22_Witness ==
    /\ last.posted
    /\ last.nOut = 1
    /\ last.out.provider = "SendGrid"
    /\ last.body.to = Str(<<"a@x.com", "Bob <b@x.com>">>)
    /\ last.out.json.personalizations[1].to[1].keys = {"email"}
    /\ last.out.json.personalizations[1].to[2].keys = {"email", "name"}
    /\ last.out.json.personalizations[1].to[2].name = "Bob"

\* C23: the callback passed to Provider.prototype.send is invoked exactly
\* once per call, whatever the order of the response, error and timeout
\* events, also when the callback throws inside the response handler: a
\* call that has not ended has had no callback, one that has ended exactly
\* one.
C23_CallbackExactlyOnce ==
    \A k \in 1..Len(reqs) :
        /\ ~Done(reqs[k]) => reqs[k].ncb = 0
        /\ Done(reqs[k]) => reqs[k].ncb = 1

\* The calls that have completed with an error of any kind: every outcome
\* but a 200 or 202 answer.
Errored == {k \in 1..Len(reqs) : Done(reqs[k]) /\ ~Success(reqs[k])}

C25_CursorInRange ==
    Serving =>
        /\ N = 2
        /\ iProvider \in 0..(N - 1)
        /\ getProvider(providers, iProvider) \in {"Mailgun", "SendGrid"}
        /\ \A k \in 1..Len(reqs) : reqs[k].cur \in 0..(N - 1)
        /\ last.delivered => last.nOut = 1

C25_Witness ==
    /\ Serving
    /\ initProviders(boot.env, 0).iProvider = 1
    /\ Len(reqs) = 3
    /\ ~reqs[2].alone
    /\ ~reqs[3].alone
    /\ \A k \in 1..3 : Done(reqs[k]) /\ ~Success(reqs[k])
    /\ iProvider = 0

====
